---- MODULE Spec2Model ----
(***************************************************************************)
(* A model of biome.data.sources.DataSource                                *)
(* (src/src/biome/data/sources/datasource.py).                             *)
(*                                                                         *)
(* Python values are encoded as follows.                                   *)
(*   str        a tuple of one-character strings, "csv" is <<"c","s","v">> *)
(*   None       <<"None">>      (str(None) is <<"N","o","n","e">>)         *)
(*   NaN        <<"NaN">>       a missing cell                             *)
(*   list       <<"[]", e1, ..., en>>                                      *)
(*   dict       <<"{}", <<k1, v1>>, ..., <<kn, vn>>>>  in insertion order  *)
(* keyword-argument dictionaries (defaults, kwargs, attributes), whose     *)
(* order never matters, are TLA+ functions from parameter names to values. *)
(***************************************************************************)
EXTENDS Integers, Sequences, FiniteSets, TLC

VARIABLES
    SUPPORTED_FORMATS,  \* the class attribute: format key -> [reader, defaults]
    registered,         \* history of the add_supported_format calls, in order
    ds,                 \* the DataSource instance (alive = FALSE: none built)
    ds0,                \* the instance as its constructor left it
    calls,              \* the reader invocations made by the last constructor
    ret,                \* what the last operation returned or raised
    memo,               \* the first result an operation returned on this instance
    pc                  \* "new", then "built" or "raised" once the constructor ran

vars == <<SUPPORTED_FORMATS, registered, ds, ds0, calls, ret, memo, pc>>

-----------------------------------------------------------------------------
(* Bounds of the model *)

MaxRegs == 2
MaxPaths == 2
MaxRows == 2
MaxFields == 2

-----------------------------------------------------------------------------
(* Python values *)

None == <<"None">>
NaN == <<"NaN">>
EmptyStr == <<>>

PyList(s) == <<"[]">> \o s
PyDict(s) == <<"{}">> \o s
IsList(x) == Len(x) > 0 /\ x[1] = "[]"
IsDict(x) == Len(x) > 0 /\ x[1] = "{}"
IsNone(x) == x = None
Items(x) == Tail(x)

\* bool(x) for None, a str, a list or a dict
Truthy(x) == ~IsNone(x) /\ x # EmptyStr /\ x # PyList(<<>>) /\ x # PyDict(<<>>)

Range(s) == {s[i] : i \in 1..Len(s)}

RECURSIVE SeqsUpTo(_, _)
SeqsUpTo(S, n) == IF n = 0 THEN {<<>>} ELSE LET P == SeqsUpTo(S, n - 1) IN P \cup {Append(p, x) : p \in {q \in P : Len(q) = n - 1}, x \in S}

UpperCase == <<"A","B","C","D","E","F","G","H","I","J","K","L","M","N","O","P","Q","R","S","T","U","V","W","X","Y","Z">>
LowerCase == <<"a","b","c","d","e","f","g","h","i","j","k","l","m","n","o","p","q","r","s","t","u","v","w","x","y","z">>

LowerChar(c) == IF \E i \in 1..26 : UpperCase[i] = c THEN LowerCase[CHOOSE i \in 1..26 : UpperCase[i] = c] ELSE c

\* str.lower()
Lower(s) == [i \in 1..Len(s) |-> LowerChar(s[i])]

IsSpace(c) == c = " "

\* str.strip()
Strip(s) == IF \A i \in 1..Len(s) : IsSpace(s[i]) THEN EmptyStr ELSE LET first == CHOOSE i \in 1..Len(s) : ~IsSpace(s[i]) /\ \A j \in 1..(i - 1) : IsSpace(s[j])
                 last == CHOOSE i \in 1..Len(s) : ~IsSpace(s[i]) /\ \A j \in (i + 1)..Len(s) : IsSpace(s[j])
             IN SubSeq(s, first, last)

\* str.replace(old, new) for one-character old and new
Replace(s, old, new) == [i \in 1..Len(s) |-> IF s[i] = old THEN new ELSE s[i]]

\* str.rfind(c) + 1: the last position of c in s, 0 when there is none
RFind(s, c) == IF \E i \in 1..Len(s) : s[i] = c THEN CHOOSE i \in 1..Len(s) : s[i] = c /\ \A j \in (i + 1)..Len(s) : s[j] # c ELSE 0

\* os.path.splitext(p): <<name, extension>>; leading dots of the last
\* component do not start an extension
SplitExt(p) == LET sepIndex == RFind(p, "/")
                   dotIndex == RFind(p, ".")
               IN IF dotIndex > sepIndex /\ \E i \in (sepIndex + 1)..(dotIndex - 1) : p[i] # "." THEN <<SubSeq(p, 1, dotIndex - 1), SubSeq(p, dotIndex, Len(p))>> ELSE <<p, EmptyStr>>

-----------------------------------------------------------------------------
(* Ordered dictionaries *)

DictKeys(d) == [i \in 1..Len(Items(d)) |-> Items(d)[i][1]]
DictHas(d, k) == \E i \in 1..Len(Items(d)) : Items(d)[i][1] = k
DictGet(d, k, default) == IF DictHas(d, k) THEN Items(d)[CHOOSE i \in 1..Len(Items(d)) : Items(d)[i][1] = k][2] ELSE default
\* d[k] = v: an existing key keeps its place, a new key goes last
DictSet(d, k, v) == IF DictHas(d, k) THEN [i \in 1..Len(d) |-> IF i > 1 /\ d[i][1] = k THEN <<k, v>> ELSE d[i]] ELSE Append(d, <<k, v>>)
DictDel(d, k) == PyDict(SelectSeq(Items(d), LAMBDA e : e[1] # k))

RECURSIVE DictFromPairs(_)
\* dict(pairs): a later pair with the same key overwrites the value
DictFromPairs(pairs) == IF pairs = <<>> THEN PyDict(<<>>) ELSE DictSet(DictFromPairs(SubSeq(pairs, 1, Len(pairs) - 1)), pairs[Len(pairs)][1], pairs[Len(pairs)][2])

\* {**a, **b}: b wins
Merge(a, b) == b @@ a
NoArgs == [x \in {} |-> None]

-----------------------------------------------------------------------------
(* Names *)

ID == <<"i","d">>
RESOURCE == <<"r","e","s","o","u","r","c","e">>
PATH_COLUMN_NAME == <<"p","a","t","h">>
ES_SOURCE_TYPE == <<"e","l","a","s","t","i","c","s","e","a","r","c","h">>
IdColumn == <<"i","d">>
StrNone == <<"N","o","n","e">>

Xls == <<"x","l","s">>
Xlsx == <<"x","l","s","x">>
Csv == <<"c","s","v">>
Json == <<"j","s","o","n">>
Jsonl == <<"j","s","o","n","l">>
JsonL == <<"j","s","o","n","-","l">>
Parquet == <<"p","a","r","q","u","e","t">>

ExcelDefaults == [na_filter |-> "False", keep_default_na |-> "False", dtype |-> "str"]
CsvDefaults == [assume_missing |-> "False", na_filter |-> "False", dtype |-> "str"]

Entry(reader, defaults) == [reader |-> reader, defaults |-> defaults]

InitialFormats == (Xls :> Entry("from_excel", ExcelDefaults)) @@ (Xlsx :> Entry("from_excel", ExcelDefaults)) @@ (Csv :> Entry("from_csv", CsvDefaults)) @@ (Json :> Entry("from_json", NoArgs)) @@ (Jsonl :> Entry("from_json", NoArgs)) @@ (JsonL :> Entry("from_json", NoArgs)) @@ (Parquet :> Entry("from_parquet", NoArgs)) @@ (ES_SOURCE_TYPE :> Entry("ElasticsearchDataFrameReader.read", NoArgs))

-----------------------------------------------------------------------------
(* Exceptions and results *)

Result(value) == [exc |-> "", msg |-> "", info |-> <<>>, value |-> value]
Raise(exc, msg, info) == [exc |-> exc, msg |-> msg, info |-> info, value |-> None]

-----------------------------------------------------------------------------
(* Tabular datasets: named columns, one dtype per column, a row index and   *)
(* the rows, each row a tuple of cells aligned with the columns.            *)

Frame(columns, dtypes, index, index_name, rows) == [columns |-> columns, dtypes |-> dtypes, index |-> index, index_name |-> index_name, rows |-> rows]

EmptyFrame == Frame(<<>>, <<>>, <<>>, None, <<>>)

Digits == <<<<"0">>, <<"1">>, <<"2">>, <<"3">>, <<"4">>, <<"5">>>>
\* the labels of the default index: 0, 1, 2, ...
RangeIndex(n) == [i \in 1..n |-> Digits[i]]

ColumnPos(df, name) == CHOOSE p \in 1..Len(df.columns) : df.columns[p] = name
HasColumn(df, name) == \E p \in 1..Len(df.columns) : df.columns[p] = name

\* the rows of df at the positions listed in keep, with their index labels
TakeRows(df, keep) == [df EXCEPT !.index = [i \in 1..Len(keep) |-> df.index[keep[i]]], !.rows = [i \in 1..Len(keep) |-> df.rows[keep[i]]]]

\* DataFrame.dropna(how="all"): a row stays when one of its cells is not missing
DropNaAll(df) == TakeRows(df, SelectSeq([i \in 1..Len(df.rows) |-> i], LAMBDA i : \E c \in 1..Len(df.columns) : df.rows[i][c] # NaN))

\* data_frame.columns = [column.strip() for column in ...astype(str)]
StripColumns(df) == [df EXCEPT !.columns = [c \in 1..Len(df.columns) |-> Strip(df.columns[c])]]

\* Series.fillna(value="") raises ValueError on a categorical column
FillNaRaises(dtype) == dtype = "category"

\* no substitution of the missing cells at all
FillNa_Skip(df) == df

\* the loop over the columns: fillna where the column accepts it
FillNa(df) == [df EXCEPT !.rows = [i \in 1..Len(df.rows) |-> [c \in 1..Len(df.columns) |-> IF df.rows[i][c] = NaN /\ ~FillNaRaises(df.dtypes[c]) THEN EmptyStr ELSE df.rows[i][c]]]]

SanitizeDataframe(df) == FillNa(StripColumns(DropNaAll(df)))

DropAt(s, p) == SubSeq(s, 1, p - 1) \o SubSeq(s, p + 1, Len(s))

\* DataFrame.set_index(name): the column becomes the index (row order kept)
SetIndex(df, name) == LET p == ColumnPos(df, name) IN Frame(DropAt(df.columns, p), DropAt(df.dtypes, p), [i \in 1..Len(df.rows) |-> df.rows[i][p]], name, [i \in 1..Len(df.rows) |-> DropAt(df.rows[i], p)])

\* lines 95-100 of __init__
SanitizeAndIndex(data_frame) == LET df == SanitizeDataframe(data_frame) IN IF HasColumn(df, IdColumn) THEN SetIndex(df, IdColumn) ELSE df

-----------------------------------------------------------------------------
(* Format resolution and reader lookup *)

FormatOfPath(src) == LET name == SplitExt(src)[1]
                         extension == SplitExt(src)[2]
                     IN IF extension # EmptyStr THEN SubSeq(extension, 2, Len(extension)) ELSE name

SourceAsList(source) == IF IsList(source) THEN Items(source) ELSE <<source>>

FormatFromSource(source) == LET formats == {FormatOfPath(src) : src \in Range(SourceAsList(source))}
                            IN IF Cardinality(formats) # 1 THEN Raise("TypeError", "source must be homogeneous", formats) ELSE Result(CHOOSE f \in formats : TRUE)

FindReader(formats, source_format) == IF IsNone(source_format) THEN Raise("AttributeError", "'NoneType' object has no attribute 'lower'", <<>>) ELSE LET clean_format == Strip(Lower(source_format)) IN IF clean_format \in DOMAIN formats THEN Result(formats[clean_format]) ELSE Raise("TypeError", "Format not supported. Supported formats are", DOMAIN formats)

AddFormat(formats, format_key, parser, default_params) == [k \in DOMAIN formats \cup {format_key} |-> IF k = format_key THEN Entry(parser, default_params) ELSE formats[k]]

-----------------------------------------------------------------------------
(* Construction *)

Instance(source, attributes, mapping, df) == [alive |-> TRUE, source |-> source, attributes |-> attributes, mapping |-> mapping, df |-> df]
NoInstance == [alive |-> FALSE, source |-> None, attributes |-> NoArgs, mapping |-> PyDict(<<>>), df |-> EmptyFrame]

\* the deprecated keyword arguments overriding attributes
ReaderArguments_KwargsWin(defaults, kwargs, attributes) == Merge(Merge(defaults, attributes), kwargs)

ReaderArguments(defaults, kwargs, attributes) == Merge(Merge(defaults, kwargs), attributes)

ReaderCall(reader, source, reader_arguments) == [reader |-> reader, positional |-> IF Truthy(source) THEN <<source>> ELSE <<>>, kwargs |-> reader_arguments]

\* DataSource.__init__; data_frame is what the reader returns when called.
\* The value of a successful result is the format the reader was looked up by.
\* attributes and kwargs are dictionaries (None and {} are the same to
\* "attributes or {}"); mapping is None or a dictionary.
DataSourceInit(formats, source, attributes, mapping, format, kwargs, data_frame) ==
    LET resolved == IF ~Truthy(format) /\ Truthy(source) THEN FormatFromSource(source) ELSE Result(format)
        found == FindReader(formats, resolved.value)
    IN  IF resolved.exc # "" THEN [res |-> resolved, ds |-> NoInstance, calls |-> <<>>]
        ELSE IF found.exc # "" THEN [res |-> found, ds |-> NoInstance, calls |-> <<>>]
        ELSE [res |-> Result(resolved.value),
              ds |-> Instance(source, attributes, IF Truthy(mapping) THEN mapping ELSE PyDict(<<>>), SanitizeAndIndex(data_frame)),
              calls |-> <<ReaderCall(found.value.reader, source, ReaderArguments(found.value.defaults, kwargs, attributes))>>]

Untracked == [op |-> "off", args |-> <<>>, res |-> Result(None), repeated |-> FALSE, again |-> Result(None)]
NoMemo == [op |-> "", args |-> <<>>, res |-> Result(None), repeated |-> FALSE, again |-> Result(None)]
Returned(op, args, r) == [op |-> op, args |-> args, exc |-> r.exc, msg |-> r.msg, info |-> r.info, value |-> r.value]

Construct(source, attributes, mapping, format, kwargs, data_frame) ==
    /\ pc = "new"
    /\ LET r == DataSourceInit(SUPPORTED_FORMATS, source, attributes, mapping, format, kwargs, data_frame)
       IN  /\ ds' = r.ds
           /\ ds0' = r.ds
           /\ calls' = r.calls
           /\ ret' = Returned("init", [source |-> source, attributes |-> attributes, mapping |-> mapping, format |-> format, kwargs |-> kwargs], r.res)
           /\ pc' = IF r.res.exc = "" THEN "built" ELSE "raised"
    /\ UNCHANGED <<SUPPORTED_FORMATS, registered, memo>>

AddSupportedFormat(format_key, parser, default_params) ==
    /\ Len(registered) < MaxRegs
    /\ SUPPORTED_FORMATS' = AddFormat(SUPPORTED_FORMATS, format_key, parser, default_params)
    /\ registered' = Append(registered, [key |-> format_key, entry |-> Entry(parser, default_params)])
    /\ ret' = Returned("add_supported_format", <<format_key>>, Result(IF format_key \in DOMAIN SUPPORTED_FORMATS THEN "warning: Already defined format" ELSE ""))
    /\ UNCHANGED <<ds, ds0, calls, memo, pc>>

InitWith(first_call) ==
    /\ SUPPORTED_FORMATS = InitialFormats
    /\ registered = <<>>
    /\ ds = NoInstance
    /\ ds0 = NoInstance
    /\ calls = <<>>
    /\ ret = Returned("", <<>>, Result(None))
    /\ memo = first_call
    /\ pc = "new"

Init == InitWith(Untracked)

-----------------------------------------------------------------------------
(* The mapped dataset *)

\* DataFrame.copy(): a new object over the same data, so that assigning a
\* column to it leaves self._df alone (shared: the same object as self._df)
FrameCopy_Alias(df) == [frame |-> df, shared |-> TRUE]

FrameCopy(df) == [frame |-> df, shared |-> FALSE]

\* a record also for a single selected column
ToDictOrAny_AlwaysDict(labels, value) == DictFromPairs([i \in 1..Len(value) |-> <<labels[i], value[i]>>])

\* _to_dict_or_any on the row of the selected columns: labels and values
ToDictOrAny(labels, value) == IF Len(value) > 1 THEN DictFromPairs([i \in 1..Len(value) |-> <<labels[i], value[i]>>]) ELSE value[1]

\* isinstance(data_features, (str, int)): a single name becomes a list
FeatureList(data_features) == IF IsList(data_features) THEN Items(data_features) ELSE <<data_features>>

MissingColumns(df, features) == {features[i] : i \in {j \in 1..Len(features) : ~HasColumn(df, features[j])}}

\* df[features].apply(_to_dict_or_any, axis=1): one cell per row
FoldColumns(df, features) == [i \in 1..Len(df.rows) |-> ToDictOrAny(features, [j \in 1..Len(features) |-> df.rows[i][ColumnPos(df, features[j])]])]

\* df[name] = cells: an existing column is replaced, a new one goes last
AssignColumn(df, name, cells) == IF HasColumn(df, name) THEN [df EXCEPT !.rows = [i \in 1..Len(df.rows) |-> [df.rows[i] EXCEPT ![ColumnPos(df, name)] = cells[i]]], !.dtypes = [df.dtypes EXCEPT ![ColumnPos(df, name)] = "object"]] ELSE [df EXCEPT !.columns = Append(df.columns, name), !.dtypes = Append(df.dtypes, "object"), !.rows = [i \in 1..Len(df.rows) |-> Append(df.rows[i], cells[i])]]

\* df[names]: the listed columns in the listed order
SelectColumns(df, names) == [df EXCEPT !.columns = names, !.dtypes = [j \in 1..Len(names) |-> df.dtypes[ColumnPos(df, names[j])]], !.rows = [i \in 1..Len(df.rows) |-> [j \in 1..Len(names) |-> df.rows[i][ColumnPos(df, names[j])]]]]

\* the frame line 189 reads the source columns from: self._df
MappingSource(self_df, mapped_dataframe) == self_df

RECURSIVE MappingLoop(_, _, _, _)
\* the loop of lines 182-196 from the i-th item of the mapping on; self_df is
\* self._df, copy the mapped_dataframe object
MappingLoop(self_df, copy, items, i) ==
    IF i > Len(items) THEN [res |-> Result(copy.frame), self_df |-> self_df]
    ELSE LET parameter_name == items[i][1]
             data_features == FeatureList(items[i][2])
             from == MappingSource(self_df, copy.frame)
         IN  IF MissingColumns(from, data_features) # {}
             THEN [res |-> Raise("KeyError", "Did not find data_features in the data source columns", [err |-> MissingColumns(from, data_features), data_features |-> data_features, columns |-> self_df.columns]), self_df |-> self_df]
             ELSE LET assigned == AssignColumn(copy.frame, parameter_name, FoldColumns(from, data_features))
                  IN  MappingLoop(IF copy.shared THEN assigned ELSE self_df, [copy EXCEPT !.frame = assigned], items, i + 1)

\* the mapping loop run without the check of line 176
ToMappedDataframe_NoMappingCheck(self) ==
    LET run == MappingLoop(self.df, FrameCopy(self.df), Items(self.mapping), 1)
    IN  IF run.res.exc # "" THEN run ELSE [res |-> Result(SelectColumns(run.res.value, DictKeys(self.mapping))), self_df |-> run.self_df]

\* to_mapped_dataframe: the result, and self._df as the call leaves it
ToMappedDataframe(self) ==
    IF ~Truthy(self.mapping) THEN [res |-> Raise("ValueError", "For a mapped DataFrame you need to specify a mapping!", <<>>), self_df |-> self.df]
    ELSE LET run == MappingLoop(self.df, FrameCopy(self.df), Items(self.mapping), 1)
         IN  IF run.res.exc # "" THEN run ELSE [res |-> Result(SelectColumns(run.res.value, DictKeys(self.mapping))), self_df |-> run.self_df]

-----------------------------------------------------------------------------
(* Row records *)

\* str(default_path)
Str(x) == IF IsNone(x) THEN StrNone ELSE x

Zip(a, b) == [i \in 1..(IF Len(a) < Len(b) THEN Len(a) ELSE Len(b)) |-> <<a[i], b[i]>>]

ResourceDefault(data, default_path) == DictGet(data, PATH_COLUMN_NAME, Str(default_path))

\* _row2dict
Row2Dict(row, columns, default_path) ==
    LET idx == row[1]
        sanitized_columns == [c \in 1..Len(columns) |-> Replace(columns[c], ".", "_")]
        data == DictFromPairs(<<<<ID, idx>>>> \o Zip(sanitized_columns, Tail(row)))
    IN  DictSet(data, RESOURCE, DictGet(data, RESOURCE, ResourceDefault(data, default_path)))

\* to_bag(index=False): the rows without their index value
FrameToBag_NoIndex(df) == LET dict_keys == [c \in 1..Len(df.columns) |-> Strip(df.columns[c])] IN [i \in 1..Len(df.rows) |-> Row2Dict(df.rows[i], dict_keys, None)]

\* df.to_bag(index=True).map(self._row2dict, columns=dict_keys): no
\* default_path is passed
FrameToBag(df) == LET dict_keys == [c \in 1..Len(df.columns) |-> Strip(df.columns[c])] IN [i \in 1..Len(df.rows) |-> Row2Dict(<<df.index[i]>> \o df.rows[i], dict_keys, None)]

ToBag(self) == Result(FrameToBag(self.df))

ToMappedBag(self) == LET mapped == ToMappedDataframe(self) IN [res |-> IF mapped.res.exc # "" THEN mapped.res ELSE Result(FrameToBag(mapped.res.value)), self_df |-> mapped.self_df]

HeadDefault == 10
Min(a, b) == IF a < b THEN a ELSE b
\* self._df.head(n=n)
HeadRows(self, n) == Result(TakeRows(self.df, [i \in 1..Min(n, Len(self.df.rows)) |-> i]))

-----------------------------------------------------------------------------
(* The operations on a built data source *)

\* op(args) returned or raised r and left self._df as self_df; memo keeps the
\* first call made on the instance and what the latest repetition of that
\* call answered (where the behaviour tracks it)
Call(op, args, r, self_df) ==
    /\ pc = "built"
    /\ ret' = Returned(op, args, r)
    /\ ds' = [ds EXCEPT !.df = self_df]
    /\ memo' = IF memo.op = "" THEN [memo EXCEPT !.op = op, !.args = args, !.res = r] ELSE IF memo.op = op /\ memo.args = args THEN [memo EXCEPT !.repeated = TRUE, !.again = r] ELSE memo
    /\ UNCHANGED <<SUPPORTED_FORMATS, registered, ds0, calls, pc>>

to_dataframe == Call("to_dataframe", <<>>, Result(ds.df), ds.df)
to_mapped_dataframe == Call("to_mapped_dataframe", <<>>, ToMappedDataframe(ds).res, ToMappedDataframe(ds).self_df)
to_bag == Call("to_bag", <<>>, ToBag(ds), ds.df)
to_mapped_bag == Call("to_mapped_bag", <<>>, ToMappedBag(ds).res, ToMappedBag(ds).self_df)
head(n) == Call("head", <<n>>, HeadRows(ds, n), ds.df)

-----------------------------------------------------------------------------
(* Input pools of the dataset specifications *)

ColA == <<"a">>
ColB == <<"b">>
ColAPadded == <<" ","a"," ">>
ColZ == <<"z">>
FieldF == <<"f">>
FieldG == <<"g">>
FieldFPadded == <<" ","f">>
FieldDotted == <<"a",".","b">>
FieldUnderscored == <<"a","_","b">>
ACsv == <<"a",".","c","s","v">>

\* a raw dataset as a reader returns it: the default index, one dtype per column
RawFrame(columns, dtypes, rows) == Frame(columns, dtypes, RangeIndex(Len(rows)), None, rows)
ObjectColumns(columns) == [c \in 1..Len(columns) |-> "object"]

\* the row whose cell in column c is the two-character string v c
VariantRow(k, v) == [c \in 1..k |-> <<v, Digits[c + 1][1]>>]
VariantFrames(column_sets) == UNION {{RawFrame(cs, ObjectColumns(cs), rows) : rows \in SeqsUpTo({VariantRow(Len(cs), v) : v \in {"x", "y"}}, MaxRows)} : cs \in column_sets}

DistinctKeys(items) == \A i, j \in 1..Len(items) : items[i][1] = items[j][1] => i = j
\* no mapping, and the dictionaries of at most MaxFields of the entries
Mappings(entries) == {None} \cup {PyDict(items) : items \in {t \in SeqsUpTo(entries, MaxFields) : DistinctKeys(t)}}

BuiltFrom(frames, mappings) == \E data_frame \in frames, mapping \in mappings : Construct(ACsv, NoArgs, mapping, None, NoArgs, data_frame)

Operation ==
    \/ to_dataframe
    \/ to_mapped_dataframe
    \/ to_bag
    \/ to_mapped_bag
    \/ \E n \in {1, HeadDefault} : head(n)

-----------------------------------------------------------------------------
(* The mapped dataset: SpecMap *)

MapColumnSets == {<<ColAPadded, ColB>>, <<IdColumn, ColA, ColB>>, <<ColA>>}
MapEntries == {<<FieldF, ColA>>, <<FieldF, PyList(<<ColA>>)>>, <<FieldF, ColZ>>, <<FieldG, PyList(<<ColA, ColB>>)>>, <<FieldG, PyList(<<ColA, ColZ>>)>>, <<FieldG, PyList(<<ColA, ColA>>)>>, <<FieldG, ColA>>, <<ColA, ColB>>}

NextMap == BuiltFrom(VariantFrames(MapColumnSets), Mappings(MapEntries)) \/ Operation

SpecMap == Init /\ [][NextMap]_vars

-----------------------------------------------------------------------------
(* Row records: SpecBag *)

BagColumnSets == {<<IdColumn, ColA, ColB>>, <<ColA, ColB, PATH_COLUMN_NAME>>, <<ColA, ColB, PATH_COLUMN_NAME, RESOURCE>>}
BagEntries == {<<FieldFPadded, ColA>>, <<FieldDotted, ColA>>, <<FieldUnderscored, ColB>>, <<ID, ColB>>, <<RESOURCE, PyList(<<ColB>>)>>}

NextBag == BuiltFrom(VariantFrames(BagColumnSets), Mappings(BagEntries)) \/ Operation

SpecBag == Init /\ [][NextBag]_vars

-----------------------------------------------------------------------------
(* One instance under every interleaving of its operations: SpecImm *)

ImmColumnSets == {<<IdColumn, ColA, ColB>>}
ImmEntries == {<<FieldG, ColA>>, <<ColA, ColB>>, <<FieldF, PyList(<<ColA, ColB>>)>>, <<FieldF, ColZ>>}

NextImm ==
    \/ BuiltFrom(VariantFrames(ImmColumnSets), Mappings(ImmEntries))
    \/ Operation
    \/ pc = "built" /\ AddSupportedFormat(<<"t","s","v">>, "reader_1", NoArgs)

SpecImm == InitWith(NoMemo) /\ [][NextImm]_vars

-----------------------------------------------------------------------------
(* Sanitization: SpecSan *)

SanColumnSets == {<<IdColumn, ColA>>, <<ColAPadded, ColB>>, <<IdColumn>>, <<ColA>>}
SanCells == {NaN, <<"x">>}
DtypePool == {"object", "category"}

\* every dataset over a column set: any dtypes, at most MaxRows rows of any cells
FreeFrames(column_sets) == UNION {{RawFrame(cs, dtypes, rows) : dtypes \in [1..Len(cs) -> DtypePool], rows \in SeqsUpTo([1..Len(cs) -> SanCells], MaxRows)} : cs \in column_sets}

\* the sanitizer (lines 95-100) applied once more, to the sanitized dataset
resanitize ==
    /\ pc = "built"
    /\ ret' = Returned("resanitize", <<>>, Result(SanitizeAndIndex(ds.df)))
    /\ UNCHANGED <<SUPPORTED_FORMATS, registered, ds, ds0, calls, memo, pc>>

NextSan == BuiltFrom(FreeFrames(SanColumnSets), {None}) \/ resanitize

SpecSan == Init /\ [][NextSan]_vars

-----------------------------------------------------------------------------
(* Legacy mappings: SpecCompat *)

KeyTarget == <<"t","a","r","g","e","t">>
KeyLabel == <<"l","a","b","e","l">>
KeyName == <<"n","a","m","e">>
KeyGoldLabel == <<"g","o","l","d","_","l","a","b","e","l">>
KeyField == <<"f","i","e","l","d">>
KeyMetadataFile == <<"m","e","t","a","d","a","t","a","_","f","i","l","e">>
KeyMapping == <<"m","a","p","p","i","n","g">>
KeyForward == <<"f","o","r","w","a","r","d">>
KeySource == <<"s","o","u","r","c","e">>
KeyText == <<"t","e","x","t">>

\* a or b
Or(a, b) == IF Truthy(a) THEN a ELSE b

\* lines 288-293
LabelKey(label_dict) == Or(DictGet(label_dict, KeyName, None), Or(DictGet(label_dict, KeyLabel, None), Or(DictGet(label_dict, KeyGoldLabel, None), DictGet(label_dict, KeyField, None))))

\* lines 275-280
RenameTarget(mapping) == IF DictHas(mapping, KeyTarget) /\ ~DictHas(mapping, KeyLabel) THEN DictSet(DictDel(mapping, KeyTarget), KeyLabel, DictGet(mapping, KeyTarget, None)) ELSE mapping

\* _make_backward_compatible
MakeBackwardCompatible(mapping) ==
    LET renamed == RenameTarget(mapping)
        label_dict == DictGet(renamed, KeyLabel, None)
    IN  IF DictHas(renamed, KeyLabel) /\ IsDict(label_dict)
        THEN IF ~Truthy(LabelKey(label_dict)) THEN Raise("RuntimeError", "Cannot find the 'label' value in the given format!", <<>>)
             ELSE IF DictHas(label_dict, KeyMetadataFile) THEN Raise("DeprecationWarning", "The 'metadata_file' functionality is deprecated, please modify your source file directly!", <<>>)
             ELSE Result(DictSet(renamed, KeyLabel, LabelKey(label_dict)))
        ELSE Result(renamed)

\* lines 249-261 of from_yaml: the mapping popped from the configuration
\* (the "forward" key when there is no mapping) and the configuration left
PoppedMapping(cfg_dict) ==
    LET mapping == DictGet(cfg_dict, KeyMapping, None)
        rest == DictDel(cfg_dict, KeyMapping)
    IN  IF ~Truthy(mapping) /\ DictHas(rest, KeyForward) THEN [mapping |-> DictGet(rest, KeyForward, None), cfg_dict |-> DictDel(rest, KeyForward)] ELSE [mapping |-> mapping, cfg_dict |-> rest]

\* the keys of the configuration besides source become keyword arguments
ConfigKwargs(cfg_dict) == IF DictHas(cfg_dict, KeyForward) THEN [forward |-> DictGet(cfg_dict, KeyForward, None)] ELSE NoArgs

\* DataSource.from_yaml on the loaded configuration cfg_dict, its paths resolved
from_yaml(cfg_dict, data_frame) ==
    /\ pc = "new"
    /\ LET popped == PoppedMapping(cfg_dict)
           compatible == IF Truthy(popped.mapping) THEN MakeBackwardCompatible(popped.mapping) ELSE Result(None)
           r == DataSourceInit(SUPPORTED_FORMATS, DictGet(popped.cfg_dict, KeySource, None), NoArgs, compatible.value, None, ConfigKwargs(popped.cfg_dict), data_frame)
       IN  IF compatible.exc # ""
           THEN /\ ret' = Returned("from_yaml", cfg_dict, compatible)
                /\ pc' = "raised"
                /\ UNCHANGED <<ds, ds0, calls>>
           ELSE /\ ret' = Returned("from_yaml", cfg_dict, r.res)
                /\ pc' = IF r.res.exc = "" THEN "built" ELSE "raised"
                /\ ds' = r.ds
                /\ ds0' = r.ds
                /\ calls' = r.calls
    /\ UNCHANGED <<SUPPORTED_FORMATS, registered, memo>>

ColSentiment == <<"s">>
SubKeys == <<KeyName, KeyLabel, KeyGoldLabel, KeyField, KeyMetadataFile>>
\* the column each sub-key of a nested label names
SubValue(k) == <<"c", Digits[(CHOOSE i \in 1..Len(SubKeys) : SubKeys[i] = k) + 1][1]>>
\* the nested label specifications: every choice of sub-keys
NestedLabels == {PyDict(SelectSeq([i \in 1..Len(SubKeys) |-> <<SubKeys[i], SubValue(SubKeys[i])>>], LAMBDA e : e[1] \in S)) : S \in SUBSET Range(SubKeys)}
LabelValues == {ColSentiment} \cup NestedLabels
LegacyMappings == {None, PyDict(<<>>)} \cup {PyDict(<<<<KeyText, ColA>>, <<k, v>>>>) : k \in {KeyLabel, KeyTarget}, v \in LabelValues} \cup {PyDict(<<<<KeyTarget, v>>, <<KeyLabel, ColB>>>>) : v \in LabelValues}
Configs == {PyDict(<<<<KeySource, ACsv>>, <<k, m>>>>) : k \in {KeyMapping, KeyForward}, m \in LegacyMappings} \cup {PyDict(<<<<KeySource, ACsv>>, <<KeyMapping, m>>, <<KeyForward, PyDict(<<<<KeyText, ColB>>>>)>>>>) : m \in LegacyMappings}

TextFrame == RawFrame(<<ColA, ColB, ColSentiment>>, <<"object", "object", "object">>, <<VariantRow(3, "x")>>)

NextCompat == (\E cfg_dict \in Configs : from_yaml(cfg_dict, TextFrame)) \/ Operation

SpecCompat == Init /\ [][NextCompat]_vars

-----------------------------------------------------------------------------
(* Construction: format resolution, reader lookup and the reader call *)

BCsvUpper == <<"b",".","C","S","V">>
DirEs == <<"d",".","x","/","e","s">>
Tsv == <<"t","s","v">>
TsvUpper == <<"T","S","V">>
CsvPadded == <<" ","C","s","v"," ">>

PathPool == {ACsv, BCsvUpper, DirEs}
SourcePool == {None, EmptyStr, PyList(<<>>)} \cup PathPool \cup {PyList(s) : s \in SeqsUpTo(PathPool, MaxPaths)}
FormatPool == {None, EmptyStr, Csv, CsvPadded, Tsv}
AttributesPool == {NoArgs, [dtype |-> "int"]}
KwargsPool == {NoArgs, [dtype |-> "float", sep |-> ";"]}
RegistrationPool == {<<Tsv, Entry("reader_1", NoArgs)>>, <<Tsv, Entry("reader_2", [sep |-> "tab"])>>, <<TsvUpper, Entry("reader_1", NoArgs)>>}

OneRowFrame == Frame(<<<<"a">>>>, <<"object">>, RangeIndex(1), None, <<<<<<"x">>>>>>)

NextCtor ==
    \/ \E source \in SourcePool, attributes \in AttributesPool, format \in FormatPool, kwargs \in KwargsPool : Construct(source, attributes, None, format, kwargs, OneRowFrame)
    \/ \E r \in RegistrationPool : pc = "new" /\ AddSupportedFormat(r[1], r[2].reader, r[2].defaults)

SpecCtor == Init /\ [][NextCtor]_vars


-----------------------------------------------------------------------------
(* Claims about construction *)

InitDone == ret.op = "init"
InitOk == ret.op = "init" /\ ret.exc = ""
Heterogeneous == ret.op = "init" /\ ret.exc = "TypeError" /\ ret.msg = "source must be homogeneous"
Unsupported == ret.op = "init" /\ ret.exc = "TypeError" /\ ret.msg = "Format not supported. Supported formats are"

\* the format key of one path as the specification defines it: the extension
\* without the dot, or the full name when there is none, lower-cased
FormatKey(p) == Lower(IF SplitExt(p)[2] # EmptyStr THEN Tail(SplitExt(p)[2]) ELSE SplitExt(p)[1])
FormatKeys(source) == {FormatKey(p) : p \in Range(SourceAsList(source))}
FromSource == InitDone /\ ~Truthy(ret.args.format) /\ Truthy(ret.args.source)

\* C1: with a source and no explicit format, construction resolves the common
\* format key when all paths have the same (lower-cased) format key, and fails
\* with the heterogeneous-source error, calling no reader and building no
\* dataset, exactly when the paths have more than one format key.
C1_FormatResolution ==
    FromSource =>
        /\ Heterogeneous <=> Cardinality(FormatKeys(ret.args.source)) > 1
        /\ Heterogeneous => ~ds.alive /\ calls = <<>>
        /\ InitOk => FormatKeys(ret.args.source) = {Lower(ret.value)}

\* the registrations a format f matches case-insensitively, ignoring
\* surrounding whitespace: the built-in entries, then the registered ones
CleanKey(k) == Strip(Lower(k))
MatchingRegistrations(f) == {i \in 1..Len(registered) : CleanKey(registered[i].key) = CleanKey(f)}
MatchingBuiltins(f) == {k \in DOMAIN InitialFormats : CleanKey(k) = CleanKey(f)}
IsKnown(f) == ~IsNone(f) /\ (MatchingRegistrations(f) # {} \/ MatchingBuiltins(f) # {})
LatestEntry(f) == IF MatchingRegistrations(f) # {} THEN registered[CHOOSE i \in MatchingRegistrations(f) : \A j \in MatchingRegistrations(f) : j <= i].entry ELSE InitialFormats[CHOOSE k \in MatchingBuiltins(f) : TRUE]
ExplicitFormat == InitDone /\ (Truthy(ret.args.format) \/ ~Truthy(ret.args.source))

\* C2: construction with format f calls the reader of the latest registration
\* whose key matches f case-insensitively and ignoring surrounding whitespace,
\* with that registration's defaults; for every other f, also when neither a
\* format nor a source is given, it fails with the unsupported-format error
\* listing the known keys and calls no reader.
C2_RegistryDispatch ==
    ExplicitFormat =>
        IF IsKnown(ret.args.format)
        THEN /\ InitOk
             /\ Len(calls) = 1
             /\ calls[1].reader = LatestEntry(ret.args.format).reader
             /\ \A n \in DOMAIN LatestEntry(ret.args.format).defaults \ (DOMAIN ret.args.kwargs \cup DOMAIN ret.args.attributes) : n \in DOMAIN calls[1].kwargs /\ calls[1].kwargs[n] = LatestEntry(ret.args.format).defaults[n]
        ELSE /\ Unsupported
             /\ ret.info = DOMAIN SUPPORTED_FORMATS
             /\ calls = <<>>

\* the entry the reader registry holds for the format construction used
UsedEntry == SUPPORTED_FORMATS[CleanKey(ret.value)]

\* C3: a successful construction calls the resolved reader exactly once; every
\* parameter comes from attributes if present there, else from the keyword
\* arguments if present there, else from the reader's registered defaults; the
\* source is the positional argument exactly when a (non-empty) source is given.
C3_ReaderCall ==
    InitOk =>
        /\ Len(calls) = 1
        /\ calls[1].reader = UsedEntry.reader
        /\ DOMAIN calls[1].kwargs = DOMAIN ret.args.attributes \cup DOMAIN ret.args.kwargs \cup DOMAIN UsedEntry.defaults
        /\ \A n \in DOMAIN calls[1].kwargs : calls[1].kwargs[n] = IF n \in DOMAIN ret.args.attributes THEN ret.args.attributes[n] ELSE IF n \in DOMAIN ret.args.kwargs THEN ret.args.kwargs[n] ELSE UsedEntry.defaults[n]
        /\ calls[1].positional = IF Truthy(ret.args.source) THEN <<ret.args.source>> ELSE <<>>

\* a reader called without a source, with a parameter from each of the three
\* levels: dtype from attributes, sep from the keyword arguments, na_filter
\* from the defaults
C3_Witness ==
    /\ InitOk
    /\ ret.args.source = None
    /\ Len(calls) = 1
    /\ calls[1].positional = <<>>
    /\ DOMAIN calls[1].kwargs = {"dtype", "sep", "na_filter", "assume_missing"}
    /\ calls[1].kwargs["dtype"] = "int"
    /\ calls[1].kwargs["sep"] = ";"
    /\ calls[1].kwargs["na_filter"] = "False"

-----------------------------------------------------------------------------
(* Claims about the mapped dataset *)

MappedOk == ret.op = "to_mapped_dataframe" /\ ret.exc = ""
MappingItems == Items(ds0.mapping)
\* the source columns the i-th logical field lists
Listed(i) == IF IsList(MappingItems[i][2]) THEN Items(MappingItems[i][2]) ELSE <<MappingItems[i][2]>>
\* the cell of the base dataset in row r and the column named c
BaseCell(r, c) == ds0.df.rows[r][CHOOSE p \in 1..Len(ds0.df.columns) : ds0.df.columns[p] = c]
IsRecordOf(cell, r, listed) == /\ IsDict(cell)
                               /\ Len(Items(cell)) = Cardinality(Range(listed))
                               /\ Range(Items(cell)) = {<<c, BaseCell(r, c)>> : c \in Range(listed)}

\* C4: in the mapped dataset the cell of a logical field is the source cell
\* itself when the field lists one source column (a plain name or a
\* one-element list), and a record keyed by source column name, with one entry
\* per listed column holding that column's cell of the row, when it lists several.
C4_MappedCells ==
    MappedOk =>
        /\ Len(ret.value.rows) = Len(ds0.df.rows)
        /\ \A r \in 1..Len(ret.value.rows), i \in 1..Len(MappingItems) :
              IF Len(Listed(i)) = 1 THEN ret.value.rows[r][i] = BaseCell(r, Listed(i)[1]) ELSE IsRecordOf(ret.value.rows[r][i], r, Listed(i))

\* a mapped dataset with rows, one field of a one-element list and one field
\* folding the two columns a and b into a record
C4_Witness ==
    /\ MappedOk
    /\ Len(ret.value.rows) = MaxRows
    /\ \E i, j \in 1..Len(MappingItems) : MappingItems[i][2] = PyList(<<ColA>>) /\ MappingItems[j][2] = PyList(<<ColA, ColB>>) /\ ret.value.rows[1][j] = PyDict(<<<<ColA, BaseCell(1, ColA)>>, <<ColB, BaseCell(1, ColB)>>>>)

MappedCall == ret.op \in {"to_mapped_dataframe", "to_mapped_bag"}
AllListed == UNION {Range(Listed(i)) : i \in 1..Len(MappingItems)}
Unknown == {c \in AllListed : \A p \in 1..Len(ds0.df.columns) : ds0.df.columns[p] # c}

\* C6: a mapped-dataset request fails with the missing-mapping error
\* (ValueError) when there is no mapping, with the unknown-column error
\* (KeyError) naming missing columns when a listed source column is not a
\* column of the sanitized dataset, and succeeds otherwise; the base dataset
\* stays as it was and to_dataframe / to_bag answer as before.
C6_MappedErrors ==
    /\ MappedCall =>
          IF ~Truthy(ds0.mapping) THEN ret.exc = "ValueError"
          ELSE IF Unknown # {} THEN ret.exc = "KeyError" /\ ret.info.err # {} /\ ret.info.err \subseteq Unknown /\ ret.info.err \subseteq Range(ret.info.data_features)
          ELSE ret.exc = ""
    /\ pc = "built" => ds = ds0
    /\ ret.op = "to_dataframe" => ret.exc = "" /\ ret.value = ds0.df
    /\ ret.op = "to_bag" => ret.exc = "" /\ Len(ret.value) = Len(ds0.df.rows)

\* the request failed on the second logical field, the first being mappable
C6_Witness ==
    /\ ret.op = "to_mapped_dataframe"
    /\ ret.exc = "KeyError"
    /\ Len(MappingItems) = 2
    /\ Range(Listed(1)) \cap Unknown = {}
    /\ ret.info.err = {ColZ}
    /\ Len(ds0.df.rows) > 0

\* C10: the instance stays as constructed under every interleaving of its
\* operations and of registrations; a mapped dataset has exactly the logical
\* field names as columns, in mapping order, each computed from the base
\* dataset; and a repeated call returns what the first call returned.
C10_Immutable ==
    /\ pc = "built" => ds = ds0
    /\ MappedOk =>
          /\ ret.value.columns = [i \in 1..Len(MappingItems) |-> MappingItems[i][1]]
          /\ \A r \in 1..Len(ret.value.rows), i \in 1..Len(MappingItems) :
                IF Len(Listed(i)) = 1 THEN ret.value.rows[r][i] = BaseCell(r, Listed(i)[1]) ELSE IsRecordOf(ret.value.rows[r][i], r, Listed(i))
    /\ memo.repeated => memo.again = memo.res

\* to_mapped_dataframe answered a second time, with a to_mapped_bag and a
\* registration made as well, for the mapping {a <- b, g <- a} whose first
\* field has the name of the source column of the second
C10_Witness ==
    /\ ret.op = "to_mapped_bag"
    /\ ret.exc = ""
    /\ memo.op = "to_mapped_dataframe"
    /\ memo.repeated
    /\ Len(registered) > 0
    /\ ds0.mapping = PyDict(<<<<ColA, ColB>>, <<FieldG, ColA>>>>)
    /\ Len(ds0.df.rows) = MaxRows
    /\ ds0.df.index_name = IdColumn

-----------------------------------------------------------------------------
(* Claims about row records *)

BagOk == ret.op \in {"to_bag", "to_mapped_bag"} /\ ret.exc = ""
MappedBagOk == ret.op = "to_mapped_bag" /\ ret.exc = ""
\* the key a column or logical field has in a record
RecordKey(name) == Replace(Strip(name), ".", "_")
Entries(record) == Range(Items(record))
EntryOf(record, key) == {e[2] : e \in {x \in Entries(record) : x[1] = key}}
RoundTrip(r, i) == EntryOf(ret.value[r], RecordKey(MappingItems[i][1])) = {BaseCell(r, Listed(i)[1])}

\* C5 as stated: for any 1:1 mapping, to_mapped_bag emits one record per row,
\* whose entry for every logical field is the raw value of the mapped column
\* in that row and whose identity field is the row's index value.
C5_RoundTrip_AsStated ==
    MappedBagOk =>
        /\ Len(ret.value) = Len(ds0.df.rows)
        /\ \A r \in 1..Len(ret.value) :
              /\ \A i \in 1..Len(MappingItems) : RoundTrip(r, i)
              /\ EntryOf(ret.value[r], ID) = {ds0.df.index[r]}

DistinctRecordKeys == \A i, j \in 1..Len(MappingItems) : RecordKey(MappingItems[i][1]) = RecordKey(MappingItems[j][1]) => i = j
NoIdentityField == \A i \in 1..Len(MappingItems) : RecordKey(MappingItems[i][1]) # ID

\* C5, amended: the round trip holds for the 1:1 mappings whose logical fields
\* have pairwise distinct record keys, none of them the identity key.
C5_RoundTrip ==
    (MappedBagOk /\ DistinctRecordKeys /\ NoIdentityField) =>
        /\ Len(ret.value) = Len(ds0.df.rows)
        /\ \A r \in 1..Len(ret.value) :
              /\ \A i \in 1..Len(MappingItems) : RoundTrip(r, i)
              /\ EntryOf(ret.value[r], ID) = {ds0.df.index[r]}

\* records of a dataset indexed by its id column, for a mapping with a dotted
\* and a padded logical field
C5_Witness ==
    /\ MappedBagOk
    /\ DistinctRecordKeys
    /\ NoIdentityField
    /\ Len(ret.value) = MaxRows
    /\ ds0.df.index_name = IdColumn
    /\ {MappingItems[i][1] : i \in 1..Len(MappingItems)} = {FieldDotted, FieldFPadded}

\* the dataset the records of the last call were emitted from
Emitted == IF ret.op = "to_bag" THEN ds0.df ELSE ToMappedDataframe(ds0).res.value
EmittedCell(r, c) == Emitted.rows[r][CHOOSE p \in 1..Len(Emitted.columns) : Emitted.columns[p] = c]
HasEmitted(c) == \E p \in 1..Len(Emitted.columns) : Emitted.columns[p] = c

\* C8: every record carries a provenance field: the row's value of the
\* resource column if the dataset has one, else the row's value of the path
\* column if it has one, else the source path the data source was loaded from.
C8_Provenance ==
    BagOk =>
        \A r \in 1..Len(ret.value) :
            EntryOf(ret.value[r], RESOURCE) = {IF HasEmitted(RESOURCE) THEN EmittedCell(r, RESOURCE) ELSE IF HasEmitted(PATH_COLUMN_NAME) THEN EmittedCell(r, PATH_COLUMN_NAME) ELSE ds0.source}

-----------------------------------------------------------------------------
(* Claims about sanitization *)

Resanitized == ret.op = "resanitize"

\* C9 as stated: sanitizing a sanitized dataset removes no row and changes no
\* column name, cell value or index.
C9_Idempotent_AsStated == Resanitized => ret.value = ds0.df

AcceptsSubstitution == \A c \in 1..Len(ds0.df.dtypes) : ds0.df.dtypes[c] = "object"
\* the rows of the sanitized dataset that hold a cell that is not missing
Kept == SelectSeq([r \in 1..Len(ds0.df.rows) |-> r], LAMBDA r : \E c \in 1..Len(ds0.df.columns) : ds0.df.rows[r][c] # NaN)

\* C9, amended: sanitizing a sanitized dataset changes no column name, cell
\* value or index value and removes exactly the rows whose cells are all
\* missing; there are none, and sanitization is idempotent, when every column
\* accepts the empty-string substitution and a column is left besides id.
C9_Idempotent ==
    Resanitized =>
        /\ ret.value.columns = ds0.df.columns
        /\ ret.value.index_name = ds0.df.index_name
        /\ ret.value.index = [i \in 1..Len(Kept) |-> ds0.df.index[Kept[i]]]
        /\ ret.value.rows = [i \in 1..Len(Kept) |-> ds0.df.rows[Kept[i]]]
        /\ (AcceptsSubstitution /\ Len(ds0.df.columns) > 0) => ret.value = ds0.df

\* a dataset of MaxRows rows, indexed by its id column, its columns accepting
\* the substitution and a substituted cell among them, sanitized again
C9_Witness ==
    /\ Resanitized
    /\ AcceptsSubstitution
    /\ ds0.df.index_name = IdColumn
    /\ Len(ds0.df.rows) = MaxRows
    /\ Len(ds0.df.columns) > 0
    /\ \E r \in 1..Len(ds0.df.rows) : ds0.df.rows[r][1] = EmptyStr
    /\ ret.value = ds0.df

-----------------------------------------------------------------------------
(* Claims about legacy mappings *)

FromYaml == ret.op = "from_yaml"
GivenMapping == PoppedMapping(ret.args).mapping
\* the label specification of the given mapping, under label or else target
GivenLabel == IF DictHas(GivenMapping, KeyLabel) THEN DictGet(GivenMapping, KeyLabel, None) ELSE DictGet(GivenMapping, KeyTarget, None)
HasLegacyLabel == Truthy(GivenMapping) /\ (DictHas(GivenMapping, KeyLabel) \/ DictHas(GivenMapping, KeyTarget))
FirstPresent(d, keys) == DictGet(d, keys[CHOOSE i \in 1..Len(keys) : DictHas(d, keys[i]) /\ \A j \in 1..(i - 1) : ~DictHas(d, keys[j])], None)
ColumnKeys == <<KeyName, KeyLabel, KeyGoldLabel, KeyField>>
NamesColumn(d) == \E i \in 1..Len(ColumnKeys) : DictHas(d, ColumnKeys[i])

\* C7: a target key is renamed to label; a nested label is replaced by the
\* column taken from the first present of name, label, gold_label, field; a
\* nested label with none of them fails with the label-resolution error
\* (RuntimeError); a nested label holding metadata_file is rejected with the
\* unsupported-feature error (DeprecationWarning).
C7_BackwardCompatible ==
    (FromYaml /\ HasLegacyLabel) =>
        IF IsDict(GivenLabel) /\ DictHas(GivenLabel, KeyMetadataFile) THEN ret.exc = "DeprecationWarning"
        ELSE IF IsDict(GivenLabel) /\ ~NamesColumn(GivenLabel) THEN ret.exc = "RuntimeError"
        ELSE /\ ret.exc = ""
             /\ DictHas(ds0.mapping, KeyLabel)
             /\ DictHas(GivenMapping, KeyLabel) \/ ~DictHas(ds0.mapping, KeyTarget)
             /\ DictGet(ds0.mapping, KeyLabel, None) = IF IsDict(GivenLabel) THEN FirstPresent(GivenLabel, ColumnKeys) ELSE GivenLabel

====
